---- MODULE Spec2Model ----
(***************************************************************************)
(* Streamflow statistics of program_10.py: the metric functions            *)
(* (CalcTqmean, CalcRBindex, Calc7Q, CalcExceed3TimesMedian), the water-   *)
(* year and monthly aggregation (GetAnnualStatistics,                      *)
(* GetMonthlyStatistics) and the averaging (GetAnnualAverages,             *)
(* GetMonthlyAverages).                                                    *)
(*                                                                         *)
(* Numbers.  A float is modelled exactly as a fraction <<n, d>> in lowest  *)
(* terms with d >= 0: d > 0 is the finite value n/d, <<0, 0>> is NaN,      *)
(* <<1, 0>> and <<-1, 0>> are +inf and -inf.  With that reading the usual  *)
(* fraction formulas give the IEEE results the code relies on (0/0 = NaN,  *)
(* x/0 = inf, NaN propagates, inf - inf = NaN).  Rounding is not modelled. *)
(* A table cell is c * sqrt(r) (a fraction c and a square-free r), since   *)
(* the standard deviation and the skewness are square roots; a column      *)
(* average is a sum of such terms.                                         *)
(***************************************************************************)
EXTENDS Integers, Sequences, FiniteSets

VARIABLES
    Qvalues,          \* the period slice handed to a metric function
    pc,               \* the position of the run
    ret,              \* the value the metric function returned
    DataDF,           \* the daily series: rows [Date, site_no, Discharge]
    WYDataDF,         \* the water-year table of GetAnnualStatistics
    AnnualAverages,   \* the row of GetAnnualAverages
    MoDataDF,         \* the monthly table of GetMonthlyStatistics
    MonthlyAverages   \* the 12 rows of GetMonthlyAverages

vars == <<Qvalues, pc, ret, DataDF, WYDataDF, AnnualAverages, MoDataDF,
          MonthlyAverages>>

----------------------------------------------------------------------------
(* Bounds of the model *)

\* the largest discharge value of an observation
MaxQ == 1
\* the number of values of a period slice beyond one rolling window
MaxExtra == 1
\* the largest period slice handed to the other metric functions
MaxLen == 6
\* the number of observations of a daily series
MaxObs == 4
\* the last calendar year of a daily series (the first is year 0)
MaxYear == 1
\* the largest factor of a uniform rescaling of a period
MaxFactor == 3

----------------------------------------------------------------------------
(* Float arithmetic *)

Abs(i) == IF i < 0 THEN -i ELSE i

Sign(i) == IF i < 0 THEN -1 ELSE IF i > 0 THEN 1 ELSE 0

RECURSIVE Gcd(_, _)
Gcd(a, b) == IF b = 0 THEN a ELSE Gcd(b, a % b)

\* n/d as a float: lowest terms, the sign in the numerator
Frac(n, d) ==
    IF d = 0 THEN <<Sign(n), 0>>
    ELSE LET g == Gcd(Abs(n), Abs(d))
         IN  <<(Sign(d) * n) \div g, Abs(d) \div g>>

Num(k) == <<k, 1>>

NaN == <<0, 0>>

IsNaN(a) == a = NaN

IsFinite(a) == a[2] > 0

Add(a, b) == Frac(a[1] * b[2] + b[1] * a[2], a[2] * b[2])

Sub(a, b) == Frac(a[1] * b[2] - b[1] * a[2], a[2] * b[2])

Mul(a, b) == Frac(a[1] * b[1], a[2] * b[2])

Div(a, b) == Frac(a[1] * b[2], a[2] * b[1])

\* a > b; False when either side is NaN
Gt(a, b) == ~IsNaN(a) /\ ~IsNaN(b) /\ a[1] * b[2] > b[1] * a[2]

Le(a, b) == ~IsNaN(a) /\ ~IsNaN(b) /\ a[1] * b[2] <= b[1] * a[2]

AbsF(a) == <<Abs(a[1]), a[2]>>

----------------------------------------------------------------------------
(* Series reductions of pandas (NaN skipped) *)

dropna(q) == SelectSeq(q, LAMBDA v : ~IsNaN(v))

RECURSIVE SumAll(_)
SumAll(q) == IF q = <<>> THEN Num(0) ELSE Add(Head(q), SumAll(Tail(q)))

\* Series.sum(): NaN entries are skipped, the empty sum is 0
sum(q) == SumAll(dropna(q))

\* Series.mean(): NaN entries are skipped, the empty mean is 0/0
mean(q) == Div(sum(q), Num(Len(dropna(q))))

\* (Series > x).sum(): the number of entries strictly greater than x
CountGt(q, x) == Cardinality({i \in 1..Len(q) : Gt(q[i], x)})

\* the k-th smallest present value of q (1 <= k <= number of present values)
Kth(q, k) ==
    LET p == dropna(q)
    IN  CHOOSE v \in {p[i] : i \in 1..Len(p)} :
            /\ Cardinality({i \in 1..Len(p) : Gt(v, p[i])}) < k
            /\ Cardinality({i \in 1..Len(p) : Le(p[i], v)}) >= k

\* Series.median(): NaN skipped; the mean of the two middle values when even
median(q) ==
    LET n == Len(dropna(q))
    IN  IF n = 0 THEN NaN
        ELSE IF n % 2 = 1 THEN Kth(q, (n + 1) \div 2)
        ELSE Div(Add(Kth(q, n \div 2), Kth(q, n \div 2 + 1)), Num(2))

\* Series.max(): NaN skipped, NaN when nothing is present
max(q) ==
    LET n == Len(dropna(q)) IN IF n = 0 THEN NaN ELSE Kth(q, n)

\* Series.min(): NaN skipped, NaN when nothing is present
min(q) ==
    LET n == Len(dropna(q)) IN IF n = 0 THEN NaN ELSE Kth(q, 1)

\* Series.diff(): the first entry has no predecessor and is NaN
diff(q) == [i \in 1..Len(q) |-> IF i = 1 THEN NaN ELSE Sub(q[i], q[i - 1])]

abs(q) == [i \in 1..Len(q) |-> AbsF(q[i])]

\* the window length of the rolling mean
window == 7

\* Series.rolling(window).mean(): NaN until a full window is available
\* (min_periods defaults to the window length)
rolling_mean(q, w) ==
    [i \in 1..Len(q) |->
        IF i < w THEN NaN
        ELSE Div(SumAll(SubSeq(q, i - w + 1, i)), Num(w))]

----------------------------------------------------------------------------
(* The metric functions *)

\* a CalcTqmean that divides by the length of the period, absent values included
CalcTqmean_AllDays(Qv) ==
    LET q == dropna(Qv)
    IN  Div(Num(CountGt(q, mean(q))), Num(Len(Qv)))

CalcTqmean(Qv) ==
    LET q == dropna(Qv)
    IN  Div(Num(CountGt(q, mean(q))), Num(Len(q)))

\* a CalcRBindex that keeps the absent values: no difference across a gap
CalcRBindex_KeepNa(Qv) ==
    LET differ == diff(Qv)
        absval == sum(abs(differ))
        total  == sum(Qv)
    IN  Div(absval, total)

CalcRBindex(Qv) ==
    LET q      == dropna(Qv)
        differ == diff(q)
        absval == sum(abs(differ))
        total  == sum(q)
    IN  Div(absval, total)

\* a Calc7Q that keeps the absent values: windows of 7 calendar days
Calc7Q_KeepNa(Qv) == min(rolling_mean(Qv, window))

Calc7Q(Qv) ==
    LET q == dropna(Qv)
    IN  min(rolling_mean(q, window))

CalcExceed3TimesMedian(Qv) ==
    LET q == dropna(Qv)
    IN  Num(CountGt(q, Mul(median(q), Num(3))))

----------------------------------------------------------------------------
(* Table cells: c * sqrt(r) *)

Cell(a) == [c |-> a, r |-> 1]

NaNCell == Cell(NaN)

\* c * sqrt(r) in canonical form: zero and the non-finite values carry r = 1
Canon(a, r) == IF IsFinite(a) /\ a[1] # 0 THEN [c |-> a, r |-> r] ELSE Cell(a)

RECURSIVE SquarePart(_, _, _)
\* the largest s with s * s dividing n, searched upwards from s
SquarePart(n, s, best) ==
    IF s * s > n THEN best
    ELSE SquarePart(n, s + 1, IF n % (s * s) = 0 THEN s ELSE best)

\* the square root of a fraction a >= 0: sqrt(n/d) = sqrt(n*d)/d
Sqrt(a) ==
    IF ~IsFinite(a) \/ a[1] = 0 THEN Cell(a)
    ELSE LET nd == a[1] * a[2]
             s  == SquarePart(nd, 1, 1)
         IN  Canon(Frac(s, a[2]), nd \div (s * s))

CellMul(x, a) == Canon(Mul(x.c, a), x.r)

CellDiv(x, a) == Canon(Div(x.c, a), x.r)

\* the sum of (q[i] - m)^k
RECURSIVE SumPowDev(_, _, _)
SumPowDev(q, m, k) ==
    IF q = <<>> THEN Num(0)
    ELSE LET dv == Sub(Head(q), m)
         IN  Add(IF k = 2 THEN Mul(dv, dv) ELSE Mul(dv, Mul(dv, dv)),
                 SumPowDev(Tail(q), m, k))

\* a std() that does not skip the absent values
std_KeepNa(q) ==
    LET n == Len(q)
    IN  IF n < 2 THEN NaNCell
        ELSE Sqrt(Div(SumPowDev(q, Div(SumAll(q), Num(n)), 2), Num(n - 1)))

\* std(): the sample (N - 1) standard deviation of the present values,
\* NaN with fewer than two of them
std(q) ==
    LET p == dropna(q)
        n == Len(p)
    IN  IF n < 2 THEN NaNCell
        ELSE Sqrt(Div(SumPowDev(p, mean(p), 2), Num(n - 1)))

\* scipy.stats.skew(x): biased third-moment skewness of the values as given
\* (nan_policy = 'propagate': one NaN makes the result NaN); a series of
\* zero variance has skewness 0, as in the SciPy releases of the script's
\* time (later releases give NaN there; no property below rests on it)
skew(x) ==
    LET n  == Len(x)
        m  == Div(SumAll(x), Num(n))
        m2 == Div(SumPowDev(x, m, 2), Num(n))
        m3 == Div(SumPowDev(x, m, 3), Num(n))
    IN  IF IsNaN(m2) THEN NaNCell
        ELSE IF m2 = Num(0) THEN Cell(Num(0))
        ELSE CellMul(Sqrt(m2), Div(m3, Mul(m2, m2)))

\* (std / mean) * 100
CoeffVar(q) == CellMul(CellDiv(std(q), mean(q)), Num(100))

\* a column mean that divides by the number of rows, NaN rows included
ColMean_AllRows(cells) ==
    LET d == SelectSeq(cells, LAMBDA x : ~IsNaN(x.c))
        n == Len(d)
        coeff(rr) == SumAll([i \in 1..n |-> IF d[i].r = rr THEN d[i].c ELSE Num(0)])
    IN  IF n = 0 THEN {NaNCell}
        ELSE {t \in {Canon(Div(coeff(rr), Num(Len(cells))), rr) : rr \in {d[i].r : i \in 1..n}} :
                 t.c # Num(0)}

\* DataFrame.mean() of one column: NaN cells are skipped; the sum of the
\* others, term by term, over their number
ColMean(cells) ==
    LET d == SelectSeq(cells, LAMBDA x : ~IsNaN(x.c))
        n == Len(d)
        coeff(rr) == SumAll([i \in 1..n |-> IF d[i].r = rr THEN d[i].c ELSE Num(0)])
    IN  IF n = 0 THEN {NaNCell}
        ELSE {t \in {Canon(Div(coeff(rr), Num(n)), rr) : rr \in {d[i].r : i \in 1..n}} :
                 t.c # Num(0)}

----------------------------------------------------------------------------
(* The daily series *)

\* the station of the series
site_no == 3335000

\* the (month, day) pairs observations fall on
SampleDays == {<<10, 1>>, <<10, 2>>, <<9, 30>>}

Dates == {<<y, md[1], md[2]>> : y \in 0..MaxYear, md \in SampleDays}

DateLt(a, b) ==
    \/ a[1] < b[1]
    \/ a[1] = b[1] /\ a[2] < b[2]
    \/ a[1] = b[1] /\ a[2] = b[2] /\ a[3] < b[3]

\* the discharge values of a period slice: absent, or 0..MaxQ
Flows == {NaN} \cup {Num(k) : k \in 0..MaxQ}

\* the discharge values of the rows of a multi-year series: absent, no flow,
\* some flow
Observed == {NaN, Num(0), Num(1)}

Column(df, name) == [i \in 1..Len(df) |-> df[i][name]]

----------------------------------------------------------------------------
(* Aggregation by period *)

\* a water year that starts after October
WaterYear_AfterOctober(date) == IF date[2] > 10 THEN date[1] ELSE date[1] - 1

\* resample('AS-OCT'): the year whose October 1 starts the bin of a date
WaterYear(date) == IF date[2] >= 10 THEN date[1] ELSE date[1] - 1

\* resample('MS'): the months since January of year 0 of the bin of a date
MonthBin(date) == date[1] * 12 + (date[2] - 1)

\* the bin of a date under a resampling rule
Bin(rule, date) == IF rule = "AS-OCT" THEN WaterYear(date) ELSE MonthBin(date)

\* the bins of a resampler: one for every period from the bin of the first
\* row to the bin of the last, with the rows that fall in it (possibly none)
resample(df, rule) ==
    IF df = <<>> THEN <<>>
    ELSE LET first == Bin(rule, df[1].Date)
             last  == Bin(rule, df[Len(df)].Date)
         IN  [i \in 1..(last - first + 1) |->
                [label |-> first + i - 1,
                 rows  |-> SelectSeq(df, LAMBDA o : Bin(rule, o.Date) = first + i - 1)]]

WYcolname == {"site_no", "Mean Flow", "Peak Flow", "Median Flow", "Coeff Var",
              "Skew", "Tqmean", "R-B Index", "7Q", "3xMedian"}

AnnualRow(rows) ==
    LET x == Column(rows, "Discharge")
    IN  [col \in WYcolname |->
            CASE col = "site_no"     -> Cell(min(Column(rows, "site_no")))
              [] col = "Mean Flow"   -> Cell(mean(x))
              [] col = "Peak Flow"   -> Cell(max(x))
              [] col = "Median Flow" -> Cell(median(x))
              [] col = "Coeff Var"   -> CoeffVar(x)
              [] col = "Skew"        -> skew(x)
              [] col = "Tqmean"      -> Cell(CalcTqmean(x))
              [] col = "R-B Index"   -> Cell(CalcRBindex(x))
              [] col = "7Q"          -> Cell(Calc7Q(x))
              [] col = "3xMedian"    -> Cell(CalcExceed3TimesMedian(x))]

GetAnnualStatistics(df) ==
    LET newDataDF == resample(df, "AS-OCT")
    IN  [i \in 1..Len(newDataDF) |->
            [index |-> <<newDataDF[i].label, 10, 1>>,
             row   |-> AnnualRow(newDataDF[i].rows)]]

Mocolname == {"site_no", "Mean Flow", "Coeff Var", "Tqmean", "R-B Index"}

MonthlyRow(rows) ==
    LET x == Column(rows, "Discharge")
    IN  [col \in Mocolname |->
            CASE col = "site_no"     -> Cell(min(Column(rows, "site_no")))
              [] col = "Mean Flow"   -> Cell(mean(x))
              [] col = "Coeff Var"   -> CoeffVar(x)
              [] col = "Tqmean"      -> Cell(CalcTqmean(x))
              [] col = "R-B Index"   -> Cell(CalcRBindex(x))]

GetMonthlyStatistics(df) ==
    LET month == resample(df, "MS")
    IN  [i \in 1..Len(month) |->
            [index |-> <<month[i].label \div 12, (month[i].label % 12) + 1, 1>>,
             row   |-> MonthlyRow(month[i].rows)]]

----------------------------------------------------------------------------
(* Averaging *)

TableColumn(table, col) == [i \in 1..Len(table) |-> table[i].row[col]]

GetAnnualAverages(WY) == [col \in WYcolname |-> ColMean(TableColumn(WY, col))]

\* the row offsets in the order of the monthly table
month_AsTable == <<0, 1, 2, 3, 4, 5, 6, 7, 8, 9, 10, 11>>

\* the row offsets GetMonthlyAverages reads for output rows 1..12
month == <<3, 4, 5, 6, 7, 8, 9, 10, 11, 0, 1, 2>>

\* s[off::12]: every 12th entry from 0-based offset off
Every12th(s, off) ==
    LET n == IF Len(s) > off THEN (Len(s) - off + 11) \div 12 ELSE 0
    IN  [k \in 1..n |-> s[off + 12 * (k - 1) + 1]]

GetMonthlyAverages(Mo) ==
    [i \in 1..12 |->
        [col \in Mocolname |->
            IF col = "site_no"
            THEN ColMean(Every12th(TableColumn(Mo, col), 0))
            ELSE ColMean(Every12th(TableColumn(Mo, col), month[i]))]]

----------------------------------------------------------------------------
(* The run of the script for one station *)

\* the period slices of up to n values of S
RECURSIVE SeqsUpTo(_, _)
SeqsUpTo(S, n) ==
    IF n = 0 THEN {<<>>}
    ELSE LET shorter == SeqsUpTo(S, n - 1)
         IN  shorter \cup {Append(s, v) : s \in {t \in shorter : Len(t) = n - 1}, v \in S}

NoTable == <<>>

Init ==
    /\ DataDF = <<>>
    /\ pc = "ReadData"
    /\ WYDataDF = NoTable
    /\ AnnualAverages = NoTable
    /\ MoDataDF = NoTable
    /\ MonthlyAverages = NoTable
    /\ Qvalues = <<>>
    /\ ret = NaN

\* one more row of the file, later than the rows read so far
ReadData ==
    /\ pc = "ReadData"
    /\ Len(DataDF) < MaxObs
    /\ \E date \in Dates, q \in Observed :
          /\ IF DataDF = <<>> THEN TRUE
             ELSE DateLt(DataDF[Len(DataDF)].Date, date)
          /\ DataDF' = Append(DataDF,
                 [Date |-> date, site_no |-> Num(site_no), Discharge |-> q])
    /\ UNCHANGED <<pc, WYDataDF, AnnualAverages, MoDataDF, MonthlyAverages,
                   Qvalues, ret>>

DoGetAnnualStatistics ==
    /\ pc = "ReadData"
    /\ DataDF # <<>>
    /\ WYDataDF' = GetAnnualStatistics(DataDF)
    /\ pc' = "GetAnnualStatistics"
    /\ UNCHANGED <<DataDF, AnnualAverages, MoDataDF, MonthlyAverages, Qvalues, ret>>

DoGetAnnualAverages ==
    /\ pc = "GetAnnualStatistics"
    /\ AnnualAverages' = GetAnnualAverages(WYDataDF)
    /\ pc' = "GetAnnualAverages"
    /\ UNCHANGED <<DataDF, WYDataDF, MoDataDF, MonthlyAverages, Qvalues, ret>>

DoGetMonthlyStatistics ==
    /\ pc = "ReadData"
    /\ DataDF # <<>>
    /\ MoDataDF' = GetMonthlyStatistics(DataDF)
    /\ pc' = "GetMonthlyStatistics"
    /\ UNCHANGED <<DataDF, WYDataDF, AnnualAverages, MonthlyAverages, Qvalues, ret>>

DoGetMonthlyAverages ==
    /\ pc = "GetMonthlyStatistics"
    /\ MonthlyAverages' = GetMonthlyAverages(MoDataDF)
    /\ pc' = "GetMonthlyAverages"
    /\ UNCHANGED <<DataDF, WYDataDF, AnnualAverages, MoDataDF, Qvalues, ret>>

\* the water-year statistics and their averages of a series
NextAnnual ==
    \/ ReadData
    \/ DoGetAnnualStatistics
    \/ DoGetAnnualAverages

SpecAnnual == Init /\ [][NextAnnual]_vars

\* the monthly statistics and their averages of a series
NextMonthly ==
    \/ ReadData
    \/ DoGetMonthlyStatistics
    \/ DoGetMonthlyAverages

SpecMonthly == Init /\ [][NextMonthly]_vars

\* the statistics of a series that lies in one period: the values of Qvalues
\* on the days from October 1
OnePeriod(q) ==
    [i \in 1..Len(q) |->
        [Date |-> <<0, 10, i>>, site_no |-> Num(site_no), Discharge |-> q[i]]]

InitPeriod ==
    /\ Qvalues \in SeqsUpTo(Flows, MaxLen) \ {<<>>}
    /\ DataDF = OnePeriod(Qvalues)
    /\ pc = "ReadData"
    /\ WYDataDF = NoTable
    /\ AnnualAverages = NoTable
    /\ MoDataDF = NoTable
    /\ MonthlyAverages = NoTable
    /\ ret = NaN

NextPeriod ==
    \/ DoGetAnnualStatistics
    \/ DoGetMonthlyStatistics

SpecPeriod == InitPeriod /\ [][NextPeriod]_vars

----------------------------------------------------------------------------
(* The metric functions applied to one period slice *)

InitCall(inputs) ==
    /\ Qvalues \in inputs
    /\ pc = "start"
    /\ ret = NaN
    /\ DataDF = <<>>
    /\ WYDataDF = NoTable
    /\ AnnualAverages = NoTable
    /\ MoDataDF = NoTable
    /\ MonthlyAverages = NoTable

Call(name, value) ==
    /\ pc = "start"
    /\ pc' = name
    /\ ret' = value
    /\ UNCHANGED <<Qvalues, DataDF, WYDataDF, AnnualAverages, MoDataDF,
                   MonthlyAverages>>

DoCalcTqmean == Call("CalcTqmean", CalcTqmean(Qvalues))

DoCalcRBindex == Call("CalcRBindex", CalcRBindex(Qvalues))

DoCalc7Q == Call("Calc7Q", Calc7Q(Qvalues))

DoCalcExceed3TimesMedian ==
    Call("CalcExceed3TimesMedian", CalcExceed3TimesMedian(Qvalues))

InitMetric == InitCall(SeqsUpTo(Flows, MaxLen))

NextMetric ==
    \/ DoCalcTqmean
    \/ DoCalcRBindex
    \/ DoCalcExceed3TimesMedian

SpecMetric == InitMetric /\ [][NextMetric]_vars

Init7Q == InitCall(SeqsUpTo(Flows, window + MaxExtra))

Next7Q == DoCalc7Q

Spec7Q == Init7Q /\ [][Next7Q]_vars

----------------------------------------------------------------------------
(* What the properties are stated in: the present values of a slice as       *)
(* integers, in day order                                                    *)

RECURSIVE PresentValues(_)
PresentValues(q) ==
    IF q = <<>> THEN <<>>
    ELSE IF Head(q)[2] = 0 THEN PresentValues(Tail(q))
    ELSE <<Head(q)[1]>> \o PresentValues(Tail(q))

RECURSIVE IntSum(_)
IntSum(f) == IF f = <<>> THEN 0 ELSE Head(f) + IntSum(Tail(f))

HasAbsent(q) == \E i \in 1..Len(q) : q[i] = <<0, 0>>

----------------------------------------------------------------------------
(* Calc7Q *)

\* C4: Calc7Q returns the least mean of 7 consecutive present values (the
\* absent ones removed first, so a window may straddle a gap), NaN when fewer
\* than 7 values are present, and it returns for every slice, the empty one
\* included.
C4_Calc7QIsLeastWindowMean ==
    /\ pc = "start" => LET v == Calc7Q(Qvalues) IN v = <<0, 0>> \/ v[2] > 0
    /\ pc = "Calc7Q" =>
         LET f == PresentValues(Qvalues)
             n == Len(f)
             W(j) == IntSum(SubSeq(f, j, j + 6))
         IN  IF n < 7 THEN ret = <<0, 0>>
             ELSE /\ \E j \in 1..(n - 6) : ret = Frac(W(j), 7)
                  /\ \A j \in 1..(n - 6) : ret[2] > 0 /\ ret[1] * 7 <= W(j) * ret[2]

\* a slice with an absent value inside and exactly 7 present ones: the one
\* window straddles the gap
C4_WindowAcrossGap ==
    /\ pc = "Calc7Q"
    /\ Len(Qvalues) = 8
    /\ \E i \in 2..7 : Qvalues[i] = <<0, 0>>
    /\ Len(PresentValues(Qvalues)) = 7
    /\ ret[2] > 0 /\ ret[1] > 0 /\ ret[1] < ret[2]

----------------------------------------------------------------------------
(* CalcTqmean *)

\* C9: with at least one present value, CalcTqmean is the number of present
\* values strictly above the mean of the present values over the number of
\* present values, and lies in [0, 1]; absent values count in neither.
C9_TqmeanIsFractionAboveMean ==
    (pc = "CalcTqmean" /\ Len(PresentValues(Qvalues)) >= 1) =>
        LET f == PresentValues(Qvalues)
            n == Len(f)
            above == Cardinality({i \in 1..n : f[i] * n > IntSum(f)})
        IN  /\ ret = Frac(above, n)
            /\ ret[2] > 0 /\ 0 <= ret[1] /\ ret[1] <= ret[2]

\* a slice with an absent value and values on both sides of the mean
C9_TqmeanWithAbsent ==
    /\ pc = "CalcTqmean"
    /\ HasAbsent(Qvalues)
    /\ Len(PresentValues(Qvalues)) >= 3
    /\ ret[2] > 0 /\ 0 < ret[1] /\ ret[1] < ret[2]

----------------------------------------------------------------------------
(* CalcRBindex *)

Scaled(q, k) == [i \in 1..Len(q) |-> <<q[i][1] * k, q[i][2]>>]

\* C10: CalcRBindex is the sum of |q[i] - q[i-1]| for i >= 2 over the sum of
\* q, q being the present values in day order (the first has no difference
\* term, a difference is taken across a removed absent value), and a uniform
\* positive rescaling of the slice leaves it unchanged.
C10_RBindexIsPathOverTotal ==
    pc = "CalcRBindex" =>
        LET f == PresentValues(Qvalues)
            n == Len(f)
            path == IntSum([i \in 1..(IF n = 0 THEN 0 ELSE n - 1) |->
                              IF f[i + 1] >= f[i] THEN f[i + 1] - f[i]
                              ELSE f[i] - f[i + 1]])
        IN  /\ ret = Frac(path, IntSum(f))
            /\ \A k \in 1..MaxFactor : CalcRBindex(Scaled(Qvalues, k)) = ret

\* a slice where two different present values lie on either side of an
\* absent one
C10_DifferenceAcrossGap ==
    /\ pc = "CalcRBindex"
    /\ \E i \in 2..(Len(Qvalues) - 1) :
          /\ Qvalues[i] = <<0, 0>>
          /\ Qvalues[i - 1][2] > 0 /\ Qvalues[i + 1][2] > 0
          /\ Qvalues[i - 1] # Qvalues[i + 1]
    /\ ret[2] > 0 /\ ret[1] > 0

----------------------------------------------------------------------------
(* The statistics of one period *)

AllEqual(f) == \A i \in 1..Len(f) : f[i] = f[1]

ZeroCell == [c |-> <<0, 1>>, r |-> 1]

AbsentCell == [c |-> <<0, 0>>, r |-> 1]

\* the rows of a series whose discharge is present
AbsentRemoved(df) == SelectSeq(df, LAMBDA o : o.Discharge # <<0, 0>>)

\* C2: every metric of a water-year row is computed from the present values
\* only: for a water year with a present and an absent value the row is the
\* row of the same period with the absent observations removed.  Stated for
\* the periods whose present values are not all equal, where the skewness of
\* the present values is a number whatever a zero variance is taken to give.
C2_RowIgnoresAbsent ==
    (pc = "GetAnnualStatistics" /\ HasAbsent(Qvalues)
        /\ Len(PresentValues(Qvalues)) >= 1
        /\ ~AllEqual(PresentValues(Qvalues))) =>
        \A col \in WYcolname :
            WYDataDF[1].row[col] = GetAnnualStatistics(AbsentRemoved(DataDF))[1].row[col]

\* C5 as claimed: a period whose present values are [a, a, a] has Coeff Var
\* exactly 0 in the water-year and in the monthly table, for every a, a = 0
\* included.
C5_ConstantPeriodCoeffVarZero ==
    LET f == PresentValues(Qvalues)
        constant == Len(f) = 3 /\ AllEqual(f)
    IN  /\ (pc = "GetAnnualStatistics" /\ constant) =>
               WYDataDF[1].row["Coeff Var"] = ZeroCell
        /\ (pc = "GetMonthlyStatistics" /\ constant) =>
               MoDataDF[1].row["Coeff Var"] = ZeroCell

\* C5 as amended: a period with two or more present values, all equal to a
\* (three values [a, a, a] among them), has Coeff Var exactly 0 when a # 0
\* and not-a-number when a = 0, in the water-year and in the monthly table.
C5_ConstantPeriodCoeffVar ==
    LET f == PresentValues(Qvalues)
        constant == Len(f) >= 2 /\ AllEqual(f)
        expected == IF f[1] = 0 THEN AbsentCell ELSE ZeroCell
    IN  /\ (pc = "GetAnnualStatistics" /\ constant) =>
               WYDataDF[1].row["Coeff Var"] = expected
        /\ (pc = "GetMonthlyStatistics" /\ constant) =>
               MoDataDF[1].row["Coeff Var"] = expected

\* a water year of three equal non-zero flows and an absent one
C5_ThreeEqualFlows ==
    /\ pc = "GetAnnualStatistics"
    /\ PresentValues(Qvalues) = <<1, 1, 1>>
    /\ HasAbsent(Qvalues)
    /\ WYDataDF[1].row["Coeff Var"] = ZeroCell
    /\ WYDataDF[1].row["Mean Flow"] = [c |-> <<1, 1>>, r |-> 1]

----------------------------------------------------------------------------
(* The water-year table and its averages *)

DateLe(a, b) ==
    \/ a[1] < b[1]
    \/ a[1] = b[1] /\ a[2] < b[2]
    \/ a[1] = b[1] /\ a[2] = b[2] /\ a[3] <= b[3]

\* the date lies in the water year that starts on October 1 of year y
InWaterYearOf(date, y) == DateLe(<<y, 10, 1>>, date) /\ DateLe(date, <<y + 1, 9, 30>>)

ObservationsOf(y) == SelectSeq(DataDF, LAMBDA o : InWaterYearOf(o.Date, y))

RowYear(i) == WYDataDF[i].index[1]

MetricColumns == WYcolname \ {"site_no"}

\* the rows of the water-year table whose period has a present observation
RowsWithPresent ==
    SelectSeq(WYDataDF,
        LAMBDA w : AbsentRemoved(ObservationsOf(w.index[1])) # <<>>)

\* C3: a water year without a present discharge value is counted in no
\* average: every metric column of GetAnnualAverages is the mean of the column
\* over the periods that have a present observation.  Stated for the tables
\* that also hold a period with a present observation.
C3_EmptyPeriodInNoAverage ==
    (pc = "GetAnnualAverages" /\ Len(RowsWithPresent) < Len(WYDataDF)
        /\ Len(RowsWithPresent) >= 1) =>
        \A col \in MetricColumns :
            AnnualAverages[col] = ColMean(TableColumn(RowsWithPresent, col))

RECURSIVE FracSum(_)
FracSum(q) == IF q = <<>> THEN <<0, 1>> ELSE Add(Head(q), FracSum(Tail(q)))

\* C6: every column of GetAnnualAverages is the arithmetic mean of the column
\* over the rows where it is defined, column by column (NaN when it is
\* defined in no row); with two rows, NaN in one and v in the other, it is v.
C6_ColumnMeanOverDefinedRows ==
    pc = "GetAnnualAverages" =>
        \A col \in WYcolname :
            LET n == Len(WYDataDF)
                cell(i) == WYDataDF[i].row[col]
                D == {i \in 1..n : cell(i).c # <<0, 0>>}
                total(rr) == FracSum([i \in 1..n |->
                                IF i \in D /\ cell(i).r = rr THEN cell(i).c ELSE <<0, 1>>])
                avg == AnnualAverages[col]
            IN  /\ D = {} => avg = {AbsentCell}
                /\ D # {} =>
                     /\ \A t \in avg : t.c[2] > 0 /\ t.c[1] # 0
                     /\ \A t, u \in avg : t.r = u.r => t = u
                     /\ \A rr \in {cell(i).r : i \in D} \cup {t.r : t \in avg} :
                          LET have == {t \in avg : t.r = rr}
                              coef == IF have = {} THEN <<0, 1>>
                                      ELSE (CHOOSE t \in have : TRUE).c
                          IN  Mul(coef, <<Cardinality(D), 1>>) = total(rr)
                /\ (n = 2 /\ Cardinality(D) = 1) =>
                     LET v == cell(CHOOSE i \in D : TRUE)
                     IN  avg = IF v.c[1] = 0 THEN {} ELSE {v}

\* two water years, Coeff Var defined in the second only, Mean Flow in both
C6_ColumnDefinedInOneRow ==
    /\ pc = "GetAnnualAverages"
    /\ Len(WYDataDF) = 2
    /\ WYDataDF[1].row["Coeff Var"] = AbsentCell
    /\ WYDataDF[2].row["Coeff Var"].c[2] > 0
    /\ WYDataDF[2].row["Coeff Var"].c[1] > 0
    /\ AnnualAverages["Coeff Var"] = {WYDataDF[2].row["Coeff Var"]}
    /\ WYDataDF[1].row["Mean Flow"] = [c |-> <<1, 1>>, r |-> 1]
    /\ AnnualAverages["Mean Flow"] = {[c |-> <<2, 3>>, r |-> 1]}

\* C8: the water-year table has one row for every water year (October 1 to
\* the following September 30) from that of the first observation to that of
\* the last, in increasing order, a water year without observations included;
\* every observation lies in the period of exactly one row, and a row is
\* computed from the observations of its period.
C8_OneRowPerWaterYear ==
    pc = "GetAnnualStatistics" =>
        LET n == Len(WYDataDF)
        IN  /\ n >= 1
            /\ \A i \in 1..n : WYDataDF[i].index = <<RowYear(1) + i - 1, 10, 1>>
            /\ InWaterYearOf(DataDF[1].Date, RowYear(1))
            /\ InWaterYearOf(DataDF[Len(DataDF)].Date, RowYear(n))
            /\ \A k \in 1..Len(DataDF) :
                   Cardinality({i \in 1..n : InWaterYearOf(DataDF[k].Date, RowYear(i))}) = 1
            /\ \A i \in 1..n : WYDataDF[i].row = AnnualRow(ObservationsOf(RowYear(i)))

\* three water years, the middle one without any observation
C8_WaterYearWithoutObservations ==
    /\ pc = "GetAnnualStatistics"
    /\ Len(WYDataDF) = 3
    /\ ObservationsOf(RowYear(2)) = <<>>
    /\ WYDataDF[2].row["Mean Flow"] = AbsentCell
    /\ WYDataDF[2].row["site_no"] = AbsentCell
    /\ WYDataDF[1].row["Mean Flow"] # AbsentCell
    /\ WYDataDF[3].row["Mean Flow"] # AbsentCell

----------------------------------------------------------------------------
(* The monthly table and its averages *)

\* the monthly table covers whole water years: it starts with an October and
\* has 12 rows a year
WholeWaterYears ==
    /\ Len(MoDataDF) >= 12
    /\ Len(MoDataDF) % 12 = 0
    /\ MoDataDF[1].index[2] = 10

\* the mean of a column over the rows of calendar month m
MonthMean(m, col) ==
    ColMean(TableColumn(SelectSeq(MoDataDF, LAMBDA w : w.index[2] = m), col))

MonthlyMetrics == Mocolname \ {"site_no"}

\* the k-th month of the water year: October, November, ..., September
WaterYearMonth(k) == ((k + 8) % 12) + 1

C7_EveryRowOneMonth ==
    (pc = "GetMonthlyAverages" /\ WholeWaterYears) =>
        /\ DOMAIN MonthlyAverages = 1..12
        /\ LET Fit == [k \in 1..12 |->
                         {m \in 1..12 : \A col \in Mocolname :
                              MonthlyAverages[k][col] = MonthMean(m, col)}]
           IN  \A K \in SUBSET (1..12) :
                   Cardinality(UNION {Fit[k] : k \in K}) >= Cardinality(K)

====
